---- MODULE Spec2Model ----
(***************************************************************************)
(* The viewbox! macro of rust-viewbox: a bundle struct holding a Box of    *)
(* data and a view whose references point into that box.  The model keeps  *)
(* the heap, the two fields of each bundle, the borrows callers hold on a  *)
(* bundle, and the steps of new, new_result, into_inner (unwrap), view,    *)
(* mut_view, drop, eq and fmt as the macro body writes them.               *)
(***************************************************************************)
EXTENDS Integers, Sequences, FiniteSets, TLC

\* ---------------------------------------------------------------- bounds
MaxVal == 1
MaxAddr == 2

\* ------------------------------------------------------------ vocabulary
\* The i32 values and the strings the data fields range over.
Ints == 0..MaxVal
Strs == {"Hello", "Goodbye"}
Addr == 1..MaxAddr
Bundles == {"a", "b"}
Tasks == {"main", "child"}
Errors == {"Nope"}

\* struct TestData { foo: i32, bar: String }
DataFields == {"foo", "bar"}
TestData == [foo : Ints, bar : Strs]
FieldVals(fld) == IF fld = "foo" THEN Ints ELSE Strs
\* What the model shows for a cell or a slot that holds no value.
Blank == [foo |-> 0, bar |-> ""]

\* struct TestView<'a> { x: &'a i32, y: &'a str } and
\* struct MutView<'a> { x: &'a mut i32, y: &'a mut String }
ViewFields == {"x", "y"}
Target(f) == IF f = "x" THEN "foo" ELSE "bar"

\* A reference is the address of the allocation it points into: a heap
\* address, StackAddr for a local of the caller's frame, NullRef for none.
StackAddr == 0
NullRef == -1
NoBox == 0
NoView == [x |-> NullRef, y |-> NullRef]
NoWrite == [fld |-> "none", val |-> 0]
NoLast == [x |-> -1, y |-> "none"]
NoRet == [kind |-> "none", d |-> Blank, e |-> "none"]
FreeCell == [tag |-> "free", val |-> Blank]
NoBorrow == [t \in Tasks |-> "none"]
\* The caller's locals before anything is stored through a reference to them.
LocalInit == [foo |-> 0, bar |-> "Hello"]
NoEq == [value |-> "none", same |-> FALSE]

VARIABLES
    layout,      \* which file's struct: "lib" (view, data) or "viewbox" (data, view)
    fieldOrder,  \* order in which the build destroys struct fields
    boxType,     \* "TestBox" (shared references) or "MutBox" (mutable references)
    decl,        \* the declaration handed to viewbox!
    heap,        \* Addr -> cell: free, full (holds a TestData) or moved (moved out)
    local,       \* locals of the caller's stack frame a reference can point at
    st,          \* per bundle: position in its lifecycle
    data,        \* per bundle: field data, the Box pointer (NoBox when destroyed)
    view,        \* per bundle: field view, the references it stores
    loc,         \* per bundle: the task whose stack holds the bundle struct
    borrow,      \* per bundle, per task: "none", "shared" (view) or "mut" (mut_view)
    ret,         \* per bundle: what new_result / into_inner returned
    orig,        \* history: the data value passed to new / new_result
    bwrite,      \* history: the write the builder made through its reference
    lastw,       \* history: per view field the last value written through mut_view
    handed,      \* history: the address handed to the builder
    calls,       \* history: number of builder invocations
    reseated,    \* history: some reference field of a view was reassigned
    viewed,      \* history: per bundle, view() has been called
    eqres,       \* the last eq call: its value, and whether the two views were equal
    fmtres       \* output of the last fmt call

vars == <<layout, fieldOrder, boxType, decl, heap, local, st, data, view, loc,
          borrow, ret, orig, bwrite, lastw, handed, calls, reseated, viewed,
          eqres, fmtres>>

build == <<layout, fieldOrder, boxType, decl>>
hist == <<orig, bwrite, lastw, handed, calls, reseated, viewed>>
calls_out == <<eqres, fmtres>>

\* ---------------------------------------------------------- macro arms
\* The declarations a consumer can write: the plain form of the first arm,
\* or a #[deriving(...)] list over the capabilities the macro knows.
PlainDecl == [attr |-> FALSE, list |-> <<>>]
DeriveLists == {<<>>, <<"PartialEq">>, <<"Show">>,
                <<"PartialEq", "Show">>, <<"Show", "PartialEq">>}
Decls == {PlainDecl} \cup {[attr |-> TRUE, list |-> l] : l \in DeriveLists}
Requested(d) == {d.list[i] : i \in 1..Len(d.list)}

\* The arms are tried in order.  Each deriving arm matches on the head of
\* the list, emits the impl for that one capability and recurses on the
\* plain form: the identifiers bound by $(,$derive:ident)* are not used.
MacroExpand(d) ==
    IF ~d.attr THEN {"struct"}
    ELSE IF d.list # <<>> /\ Head(d.list) = "PartialEq"
         THEN {"PartialEq"} \cup {"struct"}
    ELSE IF d.list # <<>> /\ Head(d.list) = "Show"
         THEN {"Show"} \cup {"struct"}
    ELSE IF d.list = <<>> THEN {"struct"}
    ELSE {}

Impls == MacroExpand(decl)

\* ------------------------------------------------------------- helpers
\* pub struct $name: the fields in declaration order.
FieldsDeclared ==
    IF layout = "lib" THEN <<"view", "data">> ELSE <<"data", "view">>

\* The order the build destroys the fields of a struct value in.
DestroyOrder ==
    IF fieldOrder = "declared" THEN FieldsDeclared
    ELSE <<FieldsDeclared[2], FieldsDeclared[1]>>

ViewAlive(b) == view[b] # NoView
BoxAlive(b) == data[b] # NoBox
BoxFull(b) == BoxAlive(b) /\ heap[data[b]].tag = "full"
FieldAlive(b, fld) == IF fld = "view" THEN ViewAlive(b) ELSE BoxAlive(b)
Unborrowed(b) == \A t \in Tasks : borrow[b][t] = "none"

\* The write a builder makes through the &mut it is given, applied to a value.
ApplyWrite(d, w) == IF w.fld = "none" THEN d ELSE [d EXCEPT ![w.fld] = w.val]
BuilderWrites ==
    {NoWrite} \cup [fld : {"foo"}, val : Ints] \cup [fld : {"bar"}, val : Strs]

\* The view a builder can return: for<'a> ties every reference to the
\* reference it was handed, so x points at foo and y at bar of that box.
BuiltView(a) == [x |-> a, y |-> a]

\* ---------------------------------------------------------------- Init
Init ==
    /\ layout \in {"lib", "viewbox"}
    /\ fieldOrder \in {"declared", "reverse"}
    /\ boxType \in {"TestBox", "MutBox"}
    /\ decl = PlainDecl
    /\ heap = [a \in Addr |-> FreeCell]
    /\ local = LocalInit
    /\ st = [b \in Bundles |-> "none"]
    /\ data = [b \in Bundles |-> NoBox]
    /\ view = [b \in Bundles |-> NoView]
    /\ loc = [b \in Bundles |-> "main"]
    /\ borrow = [b \in Bundles |-> NoBorrow]
    /\ ret = [b \in Bundles |-> NoRet]
    /\ orig = [b \in Bundles |-> Blank]
    /\ bwrite = [b \in Bundles |-> NoWrite]
    /\ lastw = [b \in Bundles |-> NoLast]
    /\ handed = [b \in Bundles |-> NoBox]
    /\ calls = [b \in Bundles |-> 0]
    /\ reseated = FALSE
    /\ viewed = [b \in Bundles |-> FALSE]
    /\ eqres = NoEq
    /\ fmtres = <<>>

\* ------------------------------------------------------- new, new_result
\* let mut d = box data;
box_data(b, d, mode) ==
    /\ st[b] = "none"
    /\ \E a \in Addr :
        /\ heap[a].tag = "free"
        /\ heap' = [heap EXCEPT ![a] = [tag |-> "full", val |-> d]]
        /\ data' = [data EXCEPT ![b] = a]
    /\ st' = [st EXCEPT ![b] = mode]
    /\ orig' = [orig EXCEPT ![b] = d]
    /\ UNCHANGED <<build, local, view, loc, borrow, ret, bwrite, lastw, handed,
                   calls, reseated, viewed, calls_out>>

new_box(b, d) == box_data(b, d, "new")
new_result_box(b, d) == box_data(b, d, "new_result")

\* f(&mut *d) returns a view; transmute; $name { data: d, view: v }
build_ok(b, w, mode) ==
    /\ st[b] = mode
    /\ heap' = [heap EXCEPT ![data[b]].val = ApplyWrite(@, w)]
    /\ view' = [view EXCEPT ![b] = BuiltView(data[b])]
    /\ st' = [st EXCEPT ![b] = "live"]
    /\ bwrite' = [bwrite EXCEPT ![b] = w]
    /\ handed' = [handed EXCEPT ![b] = data[b]]
    /\ calls' = [calls EXCEPT ![b] = @ + 1]
    /\ UNCHANGED <<build, local, data, loc, borrow, ret, orig, lastw, reseated, viewed,
                   calls_out>>

new_call(b, w) == build_ok(b, w, "new")
new_result_ok(b, w) == build_ok(b, w, "new_result")

\* Faulty variant: the value handed back is the one passed in, not the box's content.
new_result_err_orig(b, w, e) ==
    /\ st[b] = "new_result"
    /\ ret' = [ret EXCEPT ![b] = [kind |-> "err", d |-> orig[b], e |-> e]]
    /\ heap' = [heap EXCEPT ![data[b]] = FreeCell]
    /\ data' = [data EXCEPT ![b] = NoBox]
    /\ st' = [st EXCEPT ![b] = "failed"]
    /\ bwrite' = [bwrite EXCEPT ![b] = w]
    /\ handed' = [handed EXCEPT ![b] = data[b]]
    /\ calls' = [calls EXCEPT ![b] = @ + 1]
    /\ UNCHANGED <<build, local, view, loc, borrow, orig, lastw, reseated, viewed,
                   calls_out>>

\* f(&mut *d) returns Err(e): Err((*d, e)) moves the box's present content
\* out and the box is released; no view was made.
new_result_err(b, w, e) ==
    /\ st[b] = "new_result"
    /\ ret' = [ret EXCEPT ![b] =
                 [kind |-> "err", d |-> ApplyWrite(heap[data[b]].val, w), e |-> e]]
    /\ heap' = [heap EXCEPT ![data[b]] = FreeCell]
    /\ data' = [data EXCEPT ![b] = NoBox]
    /\ st' = [st EXCEPT ![b] = "failed"]
    /\ bwrite' = [bwrite EXCEPT ![b] = w]
    /\ handed' = [handed EXCEPT ![b] = data[b]]
    /\ calls' = [calls EXCEPT ![b] = @ + 1]
    /\ UNCHANGED <<build, local, view, loc, borrow, orig, lastw, reseated, viewed,
                   calls_out>>

\* ------------------------------------------------------ view, mut_view
\* pub fn view<'a>(&'a self) -> &'a $v<'a>: a shared borrow of the bundle,
\* accepted while no exclusive borrow of it is outstanding.
view_fn(t, b) ==
    /\ st[b] = "live"
    /\ borrow[b][t] = "none"
    /\ \A u \in Tasks : borrow[b][u] # "mut"
    /\ borrow' = [borrow EXCEPT ![b][t] = "shared"]
    /\ viewed' = [viewed EXCEPT ![b] = TRUE]
    /\ UNCHANGED <<build, heap, local, st, data, view, loc, ret, orig, bwrite,
                   lastw, handed, calls, reseated, calls_out>>

\* Faulty variant: mut_view declared on &'a self: accepted like a shared borrow.
mut_view_shared(t, b) ==
    /\ st[b] = "live"
    /\ borrow[b][t] = "none"
    /\ \A u \in Tasks : borrow[b][u] # "mut"
    /\ borrow' = [borrow EXCEPT ![b][t] = "mut"]
    /\ UNCHANGED <<build, heap, local, st, data, view, loc, ret, hist, calls_out>>

\* pub fn mut_view<'a>(&'a mut self) -> &'a mut $v<'a>: an exclusive borrow
\* of the bundle, accepted while no other borrow of it is outstanding.
mut_view(t, b) ==
    /\ st[b] = "live"
    /\ Unborrowed(b)
    /\ borrow' = [borrow EXCEPT ![b][t] = "mut"]
    /\ UNCHANGED <<build, heap, local, st, data, view, loc, ret, hist, calls_out>>

\* The borrow's scope 'a ends.
end_borrow(t, b) ==
    /\ borrow[b][t] # "none"
    /\ borrow' = [borrow EXCEPT ![b][t] = "none"]
    /\ UNCHANGED <<build, heap, local, st, data, view, loc, ret, hist, calls_out>>

\* Faulty variant: the store goes to a copy of the referent and is lost.
write_through_lost(t, b, f, val) ==
    /\ boxType = "MutBox"
    /\ st[b] = "live"
    /\ borrow[b][t] = "mut"
    /\ lastw' = [lastw EXCEPT ![b][f] = val]
    /\ UNCHANGED <<build, heap, local, st, data, view, loc, borrow, ret, orig,
                   bwrite, handed, calls, reseated, viewed, calls_out>>

\* *v.mut_view().x = val: a store through a mutable reference of the view.
\* The store lands where the reference points; when that allocation holds
\* no value any more the store changes nothing the model tracks.
write_through(t, b, f, val) ==
    /\ boxType = "MutBox"
    /\ st[b] = "live"
    /\ borrow[b][t] = "mut"
    /\ LET r == view[b][f] IN
        /\ local' = IF r = StackAddr THEN [local EXCEPT ![Target(f)] = val]
                    ELSE local
        /\ heap' = IF r \in Addr /\ heap[r].tag = "full"
                   THEN [heap EXCEPT ![r].val[Target(f)] = val]
                   ELSE heap
    /\ lastw' = [lastw EXCEPT ![b][f] = val]
    /\ UNCHANGED <<build, st, data, view, loc, borrow, ret, orig, bwrite, handed,
                   calls, reseated, viewed, calls_out>>

\* v.mut_view().x = &local: $v<'a> under &'a mut accepts any reference that
\* lives for the borrow 'a, such as one to a local of the caller's frame.
reseat_local(t, b, f) ==
    /\ st[b] = "live"
    /\ borrow[b][t] = "mut"
    /\ view[b][f] # StackAddr
    /\ view' = [view EXCEPT ![b][f] = StackAddr]
    /\ reseated' = TRUE
    /\ UNCHANGED viewed
    /\ UNCHANGED <<build, heap, local, st, data, loc, borrow, ret, orig, bwrite,
                   lastw, handed, calls, calls_out>>

\* b.mut_view().x = c.view().x: a shared reference is Copy, and c.view()
\* hands it out with the same free lifetime 'a.
reseat_copy(t, b, c, f) ==
    /\ boxType = "TestBox"
    /\ b # c
    /\ st[b] = "live" /\ st[c] = "live"
    /\ borrow[b][t] = "mut"
    /\ borrow[c][t] # "none"
    /\ view[b][f] # view[c][f]
    /\ view' = [view EXCEPT ![b][f] = view[c][f]]
    /\ reseated' = TRUE
    /\ UNCHANGED viewed
    /\ UNCHANGED <<build, heap, local, st, data, loc, borrow, ret, orig, bwrite,
                   lastw, handed, calls, calls_out>>

\* mem::swap(b.mut_view(), c.mut_view()): both are &'a mut $v<'a>.
swap_views(t, b, c) ==
    /\ b # c
    /\ st[b] = "live" /\ st[c] = "live"
    /\ borrow[b][t] = "mut" /\ borrow[c][t] = "mut"
    /\ view[b] # view[c]
    /\ view' = [view EXCEPT ![b] = view[c], ![c] = view[b]]
    /\ reseated' = TRUE
    /\ UNCHANGED viewed
    /\ UNCHANGED <<build, heap, local, st, data, loc, borrow, ret, orig, bwrite,
                   lastw, handed, calls, calls_out>>

\* Faulty variant: data kept inline in the struct: moving the bundle moves the
\* data to a new address as well.
move_inline(b, t) ==
    /\ st[b] = "live"
    /\ Unborrowed(b)
    /\ t # loc[b]
    /\ loc' = [loc EXCEPT ![b] = t]
    /\ \E a \in Addr :
        /\ heap[a].tag = "free"
        /\ heap' = [heap EXCEPT ![a] = heap[data[b]], ![data[b]] = FreeCell]
        /\ data' = [data EXCEPT ![b] = a]
    /\ UNCHANGED <<build, local, st, view, borrow, ret, hist, calls_out>>

\* The bundle value is moved (let w = v; spawn(proc() { .. vb .. })): the
\* struct's bytes, the Box pointer and the view among them, are copied to
\* the new place.  A borrowed value cannot be moved.
move_bundle(b, t) ==
    /\ st[b] = "live"
    /\ Unborrowed(b)
    /\ t # loc[b]
    /\ loc' = [loc EXCEPT ![b] = t]
    /\ UNCHANGED <<build, heap, local, st, data, view, borrow, ret, hist, calls_out>>

\* ----------------------------------------------------- into_inner, drop
\* Faulty variant: the allocation is released before the value is read out of it.
into_inner_bind_late(b) ==
    /\ st[b] = "live"
    /\ Unborrowed(b)
    /\ ret' = [ret EXCEPT ![b] = [kind |-> "local", d |-> LocalInit, e |-> "none"]]
    /\ heap' = [heap EXCEPT ![data[b]] = [tag |-> "moved", val |-> Blank]]
    /\ st' = [st EXCEPT ![b] = "bound"]
    /\ UNCHANGED <<build, local, data, view, loc, borrow, hist, calls_out>>

\* let $name { data: box data, .. } = self;  the box pattern moves the value
\* out of the allocation into the local; field view stays in self.
into_inner_bind(b) ==
    /\ st[b] = "live"
    /\ Unborrowed(b)
    /\ ret' = [ret EXCEPT ![b] = [kind |-> "local", d |-> heap[data[b]].val,
                                  e |-> "none"]]
    /\ heap' = [heap EXCEPT ![data[b]] = [tag |-> "moved", val |-> Blank]]
    /\ st' = [st EXCEPT ![b] = "bound"]
    /\ UNCHANGED <<build, local, data, view, loc, borrow, hist, calls_out>>

\* data  (the tail expression): the local becomes the return value, then
\* the scope ends and what is left of self is destroyed.
into_inner_return(b) ==
    /\ st[b] = "bound"
    /\ ret' = [ret EXCEPT ![b].kind = "data"]
    /\ st' = [st EXCEPT ![b] = "exiting"]
    /\ UNCHANGED <<build, heap, local, data, view, loc, borrow, hist, calls_out>>

\* A live bundle goes out of scope without being unwrapped.
drop_bundle(b) ==
    /\ st[b] = "live"
    /\ Unborrowed(b)
    /\ st' = [st EXCEPT ![b] = "dropping"]
    /\ UNCHANGED <<build, heap, local, data, view, loc, borrow, ret, hist, calls_out>>

\* The next field of the struct is destroyed, in the build's order.
\* Destroying data releases the box (and the value in it, if still there);
\* destroying view discards the references.
NextField(b) ==
    IF FieldAlive(b, DestroyOrder[1]) THEN DestroyOrder[1] ELSE DestroyOrder[2]

drop_field(b) ==
    /\ st[b] \in {"exiting", "dropping"}
    /\ LET fld == NextField(b) IN
        /\ view' = IF fld = "view" THEN [view EXCEPT ![b] = NoView] ELSE view
        /\ heap' = IF fld = "data" THEN [heap EXCEPT ![data[b]] = FreeCell] ELSE heap
        /\ data' = IF fld = "data" THEN [data EXCEPT ![b] = NoBox] ELSE data
        /\ st' = IF \A g \in {"view", "data"} \ {fld} : ~FieldAlive(b, g)
                 THEN [st EXCEPT ![b] = "gone"] ELSE st
    /\ UNCHANGED <<build, local, loc, borrow, ret, hist, calls_out>>

\* ------------------------------------------------------------- eq, fmt
\* What a reference reads: the value where it points; a reference whose
\* allocation holds no value any more may read anything.
Derefs(r, fld) ==
    IF r = StackAddr THEN {local[fld]}
    ELSE IF r \in Addr /\ heap[r].tag = "full" THEN {heap[r].val[fld]}
    ELSE FieldVals(fld)

ViewValues(b) == [x : Derefs(view[b].x, "foo"), y : Derefs(view[b].y, "bar")]

\* fn eq(&self, other: &$name) -> bool { self.view() == other.view(); }
\* The comparison is an expression statement closed by ';': its value is
\* dropped and the block's value is ().
EqBody(va, vb) == LET cmp == (va = vb) IN "()"

eq(a, b) ==
    /\ "PartialEq" \in Impls
    /\ st[a] = "live" /\ st[b] = "live"
    /\ \A u \in Tasks : borrow[a][u] # "mut" /\ borrow[b][u] # "mut"
    /\ \E va \in ViewValues(a), vb \in ViewValues(b) :
          eqres' = [value |-> EqBody(va, vb), same |-> (va = vb)]
    /\ UNCHANGED <<build, heap, local, st, data, view, loc, borrow, ret, hist, fmtres>>

\* The view's own Show output: its fields, dereferenced, in order.
ViewFmt(v) == <<v.x, v.y>>

\* fn fmt(&self, fmt) { self.view().fmt(fmt) }
fmt(b) ==
    /\ "Show" \in Impls
    /\ st[b] = "live"
    /\ \A u \in Tasks : borrow[b][u] # "mut"
    /\ \E v \in ViewValues(b) : fmtres' = ViewFmt(v)
    /\ UNCHANGED <<build, heap, local, st, data, view, loc, borrow, ret, hist, eqres>>

\* ------------------------------------------------------- specifications
\* Spec: one bundle through its whole life, used by two tasks.
One == {"a"}

Next ==
    \/ \E b \in One, d \in TestData : new_box(b, d)
    \/ \E b \in One, w \in BuilderWrites : new_call(b, w)
    \/ \E b \in One, d \in TestData : new_result_box(b, d)
    \/ \E b \in One, w \in BuilderWrites : new_result_ok(b, w)
    \/ \E b \in One, w \in BuilderWrites, e \in Errors : new_result_err(b, w, e)
    \/ \E t \in Tasks, b \in One : view_fn(t, b)
    \/ \E t \in Tasks, b \in One : mut_view(t, b)
    \/ \E t \in Tasks, b \in One : end_borrow(t, b)
    \/ \E t \in Tasks, b \in One, f \in ViewFields :
          \E val \in FieldVals(Target(f)) : write_through(t, b, f, val)
    \/ \E t \in Tasks, b \in One, f \in ViewFields : reseat_local(t, b, f)
    \/ \E b \in One, t \in Tasks : move_bundle(b, t)
    \/ \E b \in One : into_inner_bind(b)
    \/ \E b \in One : into_inner_return(b)
    \/ \E b \in One : drop_bundle(b)
    \/ \E b \in One : drop_field(b)

Spec == Init /\ [][Next]_vars

\* SpecPair: two bundles of one type in one caller, which borrows them and
\* assigns to the reference fields of their views.
NextPair ==
    \/ \E b \in Bundles, d \in TestData : new_box(b, d)
    \/ \E b \in Bundles : new_call(b, NoWrite)
    \/ \E b \in Bundles : view_fn("main", b)
    \/ \E b \in Bundles : mut_view("main", b)
    \/ \E b \in Bundles : end_borrow("main", b)
    \/ \E b \in Bundles, f \in ViewFields : reseat_local("main", b, f)
    \/ \E b, c \in Bundles, f \in ViewFields : reseat_copy("main", b, c, f)
    \/ \E b, c \in Bundles : swap_views("main", b, c)

SpecPair == Init /\ [][NextPair]_vars

\* SpecMacro: every declaration the macro accepts, two bundles of the
\* declared type, and the operations the deriving arms generate.
InitMacro ==
    /\ layout \in {"lib", "viewbox"}
    /\ fieldOrder \in {"declared", "reverse"}
    /\ boxType \in {"TestBox", "MutBox"}
    /\ decl \in Decls
    /\ heap = [a \in Addr |-> FreeCell]
    /\ local = LocalInit
    /\ st = [b \in Bundles |-> "none"]
    /\ data = [b \in Bundles |-> NoBox]
    /\ view = [b \in Bundles |-> NoView]
    /\ loc = [b \in Bundles |-> "main"]
    /\ borrow = [b \in Bundles |-> NoBorrow]
    /\ ret = [b \in Bundles |-> NoRet]
    /\ orig = [b \in Bundles |-> Blank]
    /\ bwrite = [b \in Bundles |-> NoWrite]
    /\ lastw = [b \in Bundles |-> NoLast]
    /\ handed = [b \in Bundles |-> NoBox]
    /\ calls = [b \in Bundles |-> 0]
    /\ reseated = FALSE
    /\ viewed = [b \in Bundles |-> FALSE]
    /\ eqres = NoEq
    /\ fmtres = <<>>

NextMacro ==
    \/ \E b \in Bundles, d \in TestData : new_box(b, d)
    \/ \E b \in Bundles : new_call(b, NoWrite)
    \/ \E a, b \in Bundles : eq(a, b)
    \/ \E b \in Bundles : fmt(b)

SpecMacro == InitMacro /\ [][NextMacro]_vars

\* ================================================================ claims
\* What the data holds once the builder has run.
Built(b) == ApplyWrite(orig[b], bwrite[b])

\* C1: in into_inner the view is torn down before the data is moved out of
\* the box: while into_inner runs, the view is never alive in a state where
\* the box no longer holds the data.
C1_ViewTornDownBeforeData ==
    \A b \in Bundles :
        (st[b] \in {"bound", "exiting"} /\ ViewAlive(b)) => BoxFull(b)

\* C2: when a whole bundle is dropped, for the struct layout of either file,
\* no state is reached in which the data has been destroyed while the view
\* still exists.
C2_DropViewBeforeData ==
    \A b \in Bundles : (st[b] = "dropping" /\ ViewAlive(b)) => BoxFull(b)

\* C3 (as claimed): a failing builder that was handed the mutable reference
\* makes new_result return the original data d; no bundle or view is left.
C3_FailureReturnsOriginal ==
    \A b \in Bundles :
        ret[b].kind = "err" =>
            /\ ret[b].d = orig[b]
            /\ ~ViewAlive(b) /\ ~BoxAlive(b) /\ st[b] = "failed"

\* C3 (amended): new_result returns the data as the failing builder left it:
\* d with the builder's writes applied, hence d itself when the builder wrote
\* nothing; no bundle or view is left.
C3_FailureReturnsBoxContent ==
    \A b \in Bundles :
        ret[b].kind = "err" =>
            /\ ret[b].d = Built(b)
            /\ (bwrite[b] = NoWrite => ret[b].d = orig[b])
            /\ ~ViewAlive(b) /\ ~BoxAlive(b) /\ st[b] = "failed"

C3_Witness ==
    \E b \in Bundles :
        /\ ret[b].kind = "err"
        /\ bwrite[b] # NoWrite
        /\ ret[b].d # orig[b]

\* C4: every reference stored in the view of a live bundle points into that
\* bundle's own boxed data, whatever was assigned through mut_view.
C4_ViewPointsIntoOwnData ==
    \A b \in Bundles :
        st[b] = "live" => \A f \in ViewFields : view[b][f] = data[b]

\* C5: with a builder that does not write, and nothing written through the
\* view, into_inner returns the value that was passed to new.
C5_RoundTrip ==
    \A b \in Bundles :
        (ret[b].kind = "data" /\ bwrite[b] = NoWrite /\ lastw[b] = NoLast)
            => ret[b].d = orig[b]

C5_Witness ==
    \E b \in Bundles :
        /\ st[b] = "gone" /\ ret[b].kind = "data"
        /\ bwrite[b] = NoWrite /\ lastw[b] = NoLast
        /\ viewed[b]
        /\ orig[b] = [foo |-> 1, bar |-> "Goodbye"]

\* C6: for a bundle whose view still holds the references into its data,
\* into_inner returns, for each field written through mut_view, the last
\* value written, and for every other field the value it was built with.
C6_MutationVisible ==
    \A b \in Bundles :
        (ret[b].kind = "data" /\ ~reseated) =>
            \A f \in ViewFields :
                ret[b].d[Target(f)] =
                    IF lastw[b][f] # NoLast[f] THEN lastw[b][f]
                    ELSE Built(b)[Target(f)]

C6_Witness ==
    \E b \in Bundles :
        /\ st[b] = "gone" /\ ret[b].kind = "data" /\ ~reseated
        /\ lastw[b].x # NoLast.x /\ lastw[b].y = NoLast.y
        /\ ret[b].d.foo # orig[b].foo
        /\ ret[b].d.bar = orig[b].bar

\* C7: on one bundle an exclusive borrow (mut_view) is never outstanding
\* together with any other borrow, and into_inner and drop run with no
\* borrow outstanding.
C7_Exclusive ==
    \A b \in Bundles :
        /\ \A t, u \in Tasks :
              (t # u /\ borrow[b][t] = "mut") => borrow[b][u] = "none"
        /\ st[b] # "live" => Unborrowed(b)

C7_Witness ==
    \E b \in Bundles : \E t, u \in Tasks :
        /\ t # u
        /\ borrow[b][t] = "mut"
        /\ ~ENABLED mut_view(u, b)
        /\ ~ENABLED view_fn(u, b)

\* C8: eq(a, b) returns true exactly when a.view() equals b.view().
C8_EqForwardsToView ==
    eqres.value # "none" =>
        eqres.value = (IF eqres.same THEN "true" ELSE "false")

\* C9: the data is in its box before the builder is invoked, the builder is
\* invoked exactly once, and the address it was handed is the address of the
\* data in every later state of the live bundle, wherever the bundle moves.
C9_AddressStable ==
    \A b \in Bundles :
        /\ calls[b] <= 1
        /\ st[b] \in {"new", "new_result"} =>
              /\ calls[b] = 0
              /\ BoxFull(b) /\ heap[data[b]].val = orig[b]
        /\ st[b] = "live" =>
              /\ calls[b] = 1
              /\ data[b] = handed[b]
              /\ BoxFull(b)

C9_Witness ==
    \E b \in Bundles :
        /\ st[b] = "live"
        /\ loc[b] = "child"
        /\ borrow[b]["child"] = "mut"
        /\ data[b] = handed[b]

\* C10: the generated type has the equality operation iff PartialEq is in
\* the declaration's list and the formatting operation iff Show is in it.
C10_CapabilitiesAsRequested ==
    decl.attr =>
        \A c \in {"PartialEq", "Show"} : (c \in Impls) <=> (c \in Requested(decl))

====
